---- MODULE Spec2Model ----
(***************************************************************************)
(* Sentimemory: the conversation buffer of ChatEngine                      *)
(* (src/src/ai/chat_engine.py), the extraction of memories from evicted    *)
(* turns, and the SQLite-backed MemoryManager (src/src/ai/memory.py).      *)
(***************************************************************************)
EXTENDS Integers, Sequences, FiniteSets, TLC

VARIABLES
    chat_history,         \* ChatEngine.chat_history: sequence of ChatMessage
    current_personality,  \* PersonalityManager.current_personality (an id or None)
    client,               \* ChatEngine.client is set (TRUE) or None (FALSE)
    memories,             \* rows of the table "memories"
    sqlite_sequence,      \* last id handed out by INTEGER PRIMARY KEY AUTOINCREMENT
    now,                  \* the clock read by datetime.now()
    used,                 \* irregular events so far (bounded by MaxIrregular)
    last,                 \* the operation that completed last: name, result, event log
    sessions              \* the connections of concurrent sessions to the
                          \* database, and the calls they have completed

vars == <<chat_history, current_personality, client, memories, sqlite_sequence,
          now, used, last, sessions>>

(***************************************************************************)
(* Program constants                                                       *)
(***************************************************************************)
max_chat_history == 30
memory_extract_count == 10
DefaultListLimit == 50
RecentLimit == 5
RecallLimit == 10     \* the limit _generate_response passes to get_memories
ContextLimit == 8     \* memories[:8] in _build_ai_context
WindowLength == 20    \* chat_history[-20:] in _build_conversation_history

(***************************************************************************)
(* Bounds of the model                                                     *)
(***************************************************************************)
MaxClock == 34       \* turns and memory items created in one run
MaxIrregular == 2    \* failed or ill-formed answers, persona switches, clears
                     \* and panel operations in one run
MaxRows == 3         \* rows the store operations add directly in one run
MaxLimit == 3        \* largest limit passed to get_memories
MaxRecords == 2      \* rows added in one run of the store with varied records
MaxNotes == 6        \* rows added in one run of the store with summaries
MaxTalk == 2         \* send_message calls before a clear in a run of extractions
MaxFacts == 9        \* rows added in one run of the engine with contexts
MaxSessions == 2     \* sessions that use the store at the same time
MaxCalls == 3        \* calls the concurrent sessions make in one run

None == "None"

Min(a, b) == IF a < b THEN a ELSE b

\* Python s[:n] and s[n:] for n >= 0
Take(s, n) == SubSeq(s, 1, Min(n, Len(s)))
Drop(s, n) == SubSeq(s, Min(n, Len(s)) + 1, Len(s))

(***************************************************************************)
(* Personas (PersonalityManager)                                           *)
(***************************************************************************)
\* the ids of the personalities the configuration defines: the built-in
\* default "friendly" and one more
personalities == {"friendly", "rational"}
default_personality == "friendly"
UnknownPersonality == "nobody"

\* personality['name'] as used in the system message of switch_personality
SwitchMessage(pid) == IF pid = "friendly" THEN "switched to friendly"
                                           ELSE "switched to rational"

\* a manager that accepts every id
set_any_personality(cur, personality_id) == [ok |-> TRUE, current |-> personality_id]

\* PersonalityManager.set_personality: [ok, current]
set_personality(cur, personality_id) ==
    IF personality_id \in personalities
    THEN [ok |-> TRUE, current |-> personality_id]
    ELSE [ok |-> FALSE, current |-> cur]

(***************************************************************************)
(* Turns                                                                   *)
(***************************************************************************)
ChatMessage(content, sender, timestamp) ==
    [content |-> content, sender |-> sender, timestamp |-> timestamp]

\* ChatEngine._conversations_to_text: one labelled line per turn, in order
conversations_to_text(conversations) ==
    [i \in 1..Len(conversations) |->
        <<IF conversations[i].sender = "user" THEN "User" ELSE "AI",
          conversations[i].content>>]

(***************************************************************************)
(* The memory store (MemoryManager over the table "memories")              *)
(***************************************************************************)
\* MemoryItem.__init__: "tags or []", id None until the item is stored
MemoryItem(content, category, importance, timestamp, tags) ==
    [id |-> 0, content |-> content, category |-> category,
     importance |-> importance, timestamp |-> timestamp, tags |-> tags]

\* json.dumps / json.loads of the tags column
json_dumps(tags) == [json |-> tags]
json_loads_tags(column) == column.json

\* the MemoryItem built from a selected row: the row without its personality_id
RowToItem(row) ==
    [id |-> row.id, content |-> row.content, category |-> row.category,
     importance |-> row.importance, timestamp |-> row.timestamp,
     tags |-> json_loads_tags(row.tags)]

\* values of MemoryItem.content that are not text: null, and a JSON array
ArrayContent == "[array]"
NotText == {None, ArrayContent}

\* line 125, len(memory_item.content), is evaluated before the try: a content
\* without a length (null, a number) raises TypeError to the caller
HasLen(content) == content # None

\* sqlite3 binds None, int, float, str and bytes; anything else is an error
\* raised inside the try. The column is declared TEXT NOT NULL.
Bindable(content) == content \notin NotText

\* add_memory filing every row under the default persona
add_memory_default_persona(db, seq, personality_id, memory_item) ==
    LET id == seq + 1
        row == [id |-> id, personality_id |-> default_personality,
                content |-> memory_item.content, category |-> memory_item.category,
                importance |-> memory_item.importance,
                timestamp |-> memory_item.timestamp,
                tags |-> [json |-> memory_item.tags]]
    IN IF ~HasLen(memory_item.content)
       THEN [raises |-> TRUE, ok |-> FALSE, db |-> db, seq |-> seq, id |-> 0]
       ELSE IF ~Bindable(memory_item.content)
       THEN [raises |-> FALSE, ok |-> FALSE, db |-> db, seq |-> seq, id |-> 0]
       ELSE [raises |-> FALSE, ok |-> TRUE, db |-> db \cup {row}, seq |-> id, id |-> id]

\* the largest id among the rows of db, 0 for an empty table
MaxId(db) == IF db = {} THEN 0
             ELSE CHOOSE n \in {r.id : r \in db} : \A r \in db : r.id <= n

\* add_memory over a table declared without AUTOINCREMENT: the new id is one
\* more than the largest id in the table
add_memory_reusing_rowid(db, seq, personality_id, memory_item) ==
    LET id == MaxId(db) + 1
        row == [id |-> id, personality_id |-> personality_id,
                content |-> memory_item.content, category |-> memory_item.category,
                importance |-> memory_item.importance,
                timestamp |-> memory_item.timestamp,
                tags |-> json_dumps(memory_item.tags)]
    IN IF ~HasLen(memory_item.content)
       THEN [raises |-> TRUE, ok |-> FALSE, db |-> db, seq |-> seq, id |-> 0]
       ELSE IF ~Bindable(memory_item.content)
       THEN [raises |-> FALSE, ok |-> FALSE, db |-> db, seq |-> seq, id |-> 0]
       ELSE [raises |-> FALSE, ok |-> TRUE, db |-> db \cup {row}, seq |-> id, id |-> id]

\* MemoryManager.add_memory: INSERT, id from AUTOINCREMENT, True; False when
\* the INSERT fails; an exception when the content has no length
\* (id 0: memory_item.id is left None)
add_memory(db, seq, personality_id, memory_item) ==
    LET id == seq + 1
        row == [id |-> id, personality_id |-> personality_id,
                content |-> memory_item.content, category |-> memory_item.category,
                importance |-> memory_item.importance,
                timestamp |-> memory_item.timestamp,
                tags |-> json_dumps(memory_item.tags)]
    IN IF ~HasLen(memory_item.content)
       THEN [raises |-> TRUE, ok |-> FALSE, db |-> db, seq |-> seq, id |-> 0]
       ELSE IF ~Bindable(memory_item.content)
       THEN [raises |-> FALSE, ok |-> FALSE, db |-> db, seq |-> seq, id |-> 0]
       ELSE [raises |-> FALSE, ok |-> TRUE, db |-> db \cup {row}, seq |-> id, id |-> id]

\* ORDER BY importance DESC, timestamp ASC
OrderedOldestFirst(a, b) ==
    \/ a.importance > b.importance
    \/ a.importance = b.importance /\ a.timestamp < b.timestamp

\* ORDER BY importance DESC, timestamp DESC: a comes strictly before b
OrderedBefore(a, b) ==
    \/ a.importance > b.importance
    \/ a.importance = b.importance /\ a.timestamp > b.timestamp

\* every sequence SQLite may produce for ORDER BY over the rows S
\* (rows that tie on both keys come in an unspecified order)
RECURSIVE OrderBy(_)
OrderBy(S) ==
    IF S = {} THEN {<<>>}
    ELSE UNION { {<<x>> \o t : t \in OrderBy(S \ {x})} :
                 x \in {y \in S : \A z \in S : ~OrderedBefore(z, y)} }

\* LIMIT n: a negative n means no limit
SqlLimit(rows, n) == IF n < 0 THEN rows ELSE Take(rows, n)

\* MemoryManager.get_memories: the lists the SELECT may return
get_memories(db, personality_id, limit) ==
    { [i \in 1..Len(SqlLimit(rows, limit)) |-> RowToItem(rows[i])] :
      rows \in OrderBy({r \in db : r.personality_id = personality_id}) }

\* the characters of the texts that are stored or searched for
Chars(text) ==
    CASE text = "Tea" -> <<"T", "e", "a">>
      [] text = "tea" -> <<"t", "e", "a">>
      [] text = "pot" -> <<"p", "o", "t">>
      [] text = "tea pot" -> <<"t", "e", "a", " ", "p", "o", "t">>
      [] text = "o" -> <<"o">>
      [] text = "_" -> <<"_">>

\* LIKE folds the case of ASCII letters
Lower(c) == CASE c = "T" -> "t" [] c = "P" -> "p" [] OTHER -> c

\* SQLite text LIKE pattern: % stands for any run of characters, _ for any
\* one character, every other character for itself in either case
RECURSIVE Like(_, _)
Like(text, pattern) ==
    IF pattern = <<>> THEN text = <<>>
    ELSE IF Head(pattern) = "%"
    THEN Like(text, Tail(pattern)) \/ (text # <<>> /\ Like(Tail(text), pattern))
    ELSE /\ text # <<>>
         /\ Head(pattern) = "_" \/ Lower(Head(pattern)) = Lower(Head(text))
         /\ Like(Tail(text), Tail(pattern))

\* search over the rows of every persona
search_all_personas(db, personality_id, keyword) ==
    { [i \in 1..Len(rows) |-> RowToItem(rows[i])] :
      rows \in OrderBy({r \in db :
                           Like(Chars(r.content),
                                <<"%">> \o Chars(keyword) \o <<"%">>)}) }

\* MemoryManager.search_memories: the lists the SELECT may return
search_memories(db, personality_id, keyword) ==
    { [i \in 1..Len(rows) |-> RowToItem(rows[i])] :
      rows \in OrderBy({r \in db :
                           /\ r.personality_id = personality_id
                           /\ Like(Chars(r.content),
                                   <<"%">> \o Chars(keyword) \o <<"%">>)}) }

\* every sequence SQLite may produce for ORDER BY timestamp DESC over S
RECURSIVE OrderByTimestamp(_)
OrderByTimestamp(S) ==
    IF S = {} THEN {<<>>}
    ELSE UNION { {<<x>> \o t : t \in OrderByTimestamp(S \ {x})} :
                 x \in {y \in S : \A z \in S : z.timestamp <= y.timestamp} }

\* every sequence for ORDER BY timestamp ASC over S
RECURSIVE OrderByTimestampAsc(_)
OrderByTimestampAsc(S) ==
    IF S = {} THEN {<<>>}
    ELSE UNION { {<<x>> \o t : t \in OrderByTimestampAsc(S \ {x})} :
                 x \in {y \in S : \A z \in S : z.timestamp >= y.timestamp} }

\* a summary whose recent_memories are the oldest rows
summary_of_oldest(db, personality_id) ==
    { [total_count |-> Cardinality({r \in db : r.personality_id = personality_id}),
       category_stats |->
           [c \in {r.category : r \in {q \in db : q.personality_id = personality_id}} |->
               Cardinality({r \in db : /\ r.personality_id = personality_id
                                       /\ r.category = c})],
       recent_memories |->
           [i \in 1..Len(SqlLimit(rows, RecentLimit)) |->
               <<rows[i].content, rows[i].timestamp>>]] :
      rows \in OrderByTimestampAsc({r \in db : r.personality_id = personality_id}) }

\* MemoryManager.get_memory_summary: the summaries the three SELECTs may give
get_memory_summary(db, personality_id) ==
    { [total_count |-> Cardinality({r \in db : r.personality_id = personality_id}),
       category_stats |->
           [c \in {r.category : r \in {q \in db : q.personality_id = personality_id}} |->
               Cardinality({r \in db : /\ r.personality_id = personality_id
                                       /\ r.category = c})],
       recent_memories |->
           [i \in 1..Len(SqlLimit(rows, RecentLimit)) |->
               <<rows[i].content, rows[i].timestamp>>]] :
      rows \in OrderByTimestamp({r \in db : r.personality_id = personality_id}) }

\* delete_memory reporting success whatever rowcount says
delete_reporting_success(db, memory_id) ==
    [ok |-> TRUE, db |-> {r \in db : r.id # memory_id}]

\* MemoryManager.delete_memory: DELETE ... WHERE id = ?, True iff a row was affected
delete_memory(db, memory_id) ==
    [ok |-> \E r \in db : r.id = memory_id,
     db |-> {r \in db : r.id # memory_id}]

\* an update that rewrites the whole row: a field that is not supplied falls
\* back to the default of its column
ReplacedRow(r, fields) ==
    [id |-> r.id, personality_id |-> r.personality_id,
     content |-> IF "content" \in DOMAIN fields THEN fields.content ELSE r.content,
     category |-> IF "category" \in DOMAIN fields THEN fields.category ELSE "general",
     importance |-> IF "importance" \in DOMAIN fields THEN fields.importance ELSE 1,
     timestamp |-> r.timestamp,
     tags |-> IF "tags" \in DOMAIN fields THEN json_dumps(fields.tags)
                                          ELSE json_dumps(<<>>)]

\* the row after UPDATE ... SET of the supplied fields
UpdatedRow(r, fields) ==
    [id |-> r.id, personality_id |-> r.personality_id,
     content |-> IF "content" \in DOMAIN fields THEN fields.content ELSE r.content,
     category |-> IF "category" \in DOMAIN fields THEN fields.category ELSE r.category,
     importance |-> IF "importance" \in DOMAIN fields THEN fields.importance
                                                      ELSE r.importance,
     timestamp |-> r.timestamp,
     tags |-> IF "tags" \in DOMAIN fields THEN json_dumps(fields.tags) ELSE r.tags]

\* update_memory whose UPDATE has lost its WHERE clause
update_every_row(db, memory_id, fields) ==
    IF DOMAIN fields = {}
    THEN [ok |-> FALSE, db |-> db]
    ELSE [ok |-> db # {},
          db |-> {UpdatedRow(r, fields) : r \in db}]

\* MemoryManager.update_memory: fields holds the arguments that are not None
update_memory(db, memory_id, fields) ==
    IF DOMAIN fields = {}
    THEN [ok |-> FALSE, db |-> db]
    ELSE [ok |-> \E r \in db : r.id = memory_id,
          db |-> {IF r.id = memory_id THEN UpdatedRow(r, fields) ELSE r : r \in db}]

(***************************************************************************)
(* The generative-text capability: what a call may answer                  *)
(***************************************************************************)
\* objects of an extraction answer: a complete one and one with content only
FullObject == [content |-> "likes tea", category |-> "preference",
               importance |-> 4, tags |-> <<"tea">>]
BareObject == [content |-> "is a student"]
\* objects whose content is not text: JSON null, and a JSON array
NullObject == [content |-> None, category |-> "event"]
ArrayObject == [content |-> ArrayContent]

JsonList(items) == [tok |-> "value", value |-> [kind |-> "list", items |-> items]]
JsonObject == [tok |-> "value", value |-> [kind |-> "object", items |-> <<>>]]
Prose == [tok |-> "prose"]
FenceJson == [tok |-> "fence_json"]   \* the text ```json
Fence == [tok |-> "fence"]            \* the text ```

Answer(tokens) == [raises |-> FALSE, text |-> tokens]
ApiError == [raises |-> TRUE, text |-> <<>>]
NoCall == [raises |-> FALSE, text |-> <<>>]

\* the answers to an extraction request that the model draws from
Responses ==
    { ApiError,
      Answer(<<Prose>>),
      Answer(<<JsonObject>>),
      Answer(<<JsonList(<<>>)>>),
      Answer(<<JsonList(<<FullObject>>)>>),
      Answer(<<FenceJson, JsonList(<<FullObject, BareObject>>), Fence>>),
      Answer(<<Fence, JsonList(<<BareObject>>), Fence>>),
      Answer(<<JsonList(<<ArrayObject, NullObject, FullObject>>)>>) }

\* lines 275-280: drop a leading ```json and a trailing ```
cleaned_response(ai_response) ==
    LET a == IF Len(ai_response) > 0 /\ ai_response[1].tok = "fence_json"
             THEN Tail(ai_response) ELSE ai_response
    IN IF Len(a) > 0 /\ a[Len(a)].tok = "fence" THEN SubSeq(a, 1, Len(a) - 1) ELSE a

\* json.loads: the text must be exactly one JSON value
json_loads(text) ==
    IF Len(text) = 1 /\ text[1].tok = "value"
    THEN [ok |-> TRUE, value |-> text[1].value]
    ELSE [ok |-> FALSE, value |-> [kind |-> "none", items |-> <<>>]]

\* dict.get(key, default)
Get(obj, key, default) == IF key \in DOMAIN obj THEN obj[key] ELSE default

(***************************************************************************)
(* Extraction (ChatEngine._extract_memories_from_conversations)            *)
(***************************************************************************)
\* one entry of the event log of an operation
\* (len: the length of the buffer right after a "remove" or an "append";
\* the turns of a "reply" are the messages of the request for a reply)
Event(e, turns, text, id, len) ==
    [e |-> e, turns |-> turns, text |-> text, id |-> id, len |-> len]

\* a MemoryItem that leaves a missing importance to the default of
\* MemoryItem.__init__ and of the column, which is 1
item_with_column_default(memory_data, t) ==
    MemoryItem(Get(memory_data, "content", ""),
               Get(memory_data, "category", "general"),
               Get(memory_data, "importance", 1),
               t,
               Get(memory_data, "tags", <<>>))

\* lines 286-291: the MemoryItem built from one element of the list, at time t
ItemOf(memory_data, t) ==
    MemoryItem(Get(memory_data, "content", ""),
               Get(memory_data, "category", "general"),
               Get(memory_data, "importance", 3),
               t,
               Get(memory_data, "tags", <<>>))

\* lines 285-294: build a MemoryItem from every element and add it; an
\* exception raised by add_memory leaves the loop for the handler at line 315
\* (events: what the loop has logged so far; a: what add_memory returned)
RECURSIVE SaveMemories(_, _, _, _, _, _)
SaveMemories(memories_data, personality_id, db, seq, t, events) ==
    IF memories_data = <<>>
    THEN [db |-> db, seq |-> seq, now |-> t, events |-> events]
    ELSE CHOOSE saved \in
             { IF a.raises
               THEN [db |-> db, seq |-> seq, now |-> t + 1,
                     events |-> Append(events, Event("raise", <<>>, <<>>, 0, 0))]
               ELSE SaveMemories(
                        Tail(memories_data), personality_id, a.db, a.seq, t + 1,
                        Append(events,
                               IF a.ok THEN Event("add", <<>>, <<>>, a.id, 0)
                                       ELSE Event("rejected", <<>>, <<>>, 0, 0))) :
               a \in {add_memory(db, seq, personality_id,
                                 ItemOf(Head(memories_data), t))} } : TRUE

\* TRUE iff the extraction of these turns sends a request to the capability
ExtractionCalls(conversations, personality_id, cl) ==
    conversations # <<>> /\ personality_id # None /\ cl

\* extraction that falls back to a record made of the raw text when the answer
\* cannot be used (as _extract_and_save_memories does for a single message)
extract_with_fallback(conversations, personality_id, cl, db, seq, t, resp) ==
    LET invoked == <<Event("extract", conversations, <<>>, 0, 0)>>
        request == <<Event("request", <<>>, conversations_to_text(conversations), 0, 0)>>
        nothing == [db |-> db, seq |-> seq, now |-> t, events |-> invoked]
        parsed == json_loads(cleaned_response(resp.text))
        items == IF ~resp.raises /\ parsed.ok /\ parsed.value.kind = "list"
                 THEN parsed.value.items
                 ELSE <<[content |-> conversations[1].content]>>
        s == SaveMemories(items, personality_id, db, seq, t, <<>>)
    IN IF conversations = <<>> THEN nothing
       ELSE IF personality_id = None \/ ~cl THEN nothing
       ELSE [db |-> s.db, seq |-> s.seq, now |-> s.now,
             events |-> invoked \o request \o s.events]

\* extraction that files what it finds under the persona the session
\* started with
extract_for_first_persona(conversations, personality_id, cl, db, seq, t, resp) ==
    LET invoked == <<Event("extract", conversations, <<>>, 0, 0)>>
        request == <<Event("request", <<>>, conversations_to_text(conversations), 0, 0)>>
        nothing == [db |-> db, seq |-> seq, now |-> t, events |-> invoked]
        parsed == json_loads(cleaned_response(resp.text))
    IN IF conversations = <<>> THEN nothing
       ELSE IF personality_id = None \/ ~cl THEN nothing
       ELSE IF resp.raises
            THEN [nothing EXCEPT !.events = invoked \o request]
       ELSE IF ~parsed.ok \/ parsed.value.kind # "list"
            THEN [nothing EXCEPT !.events = invoked \o request]
       ELSE LET s == SaveMemories(parsed.value.items, default_personality, db, seq, t, <<>>)
            IN [db |-> s.db, seq |-> s.seq, now |-> s.now,
                events |-> invoked \o request \o s.events]

extract_memories_from_conversations(conversations, personality_id, cl, db, seq, t, resp) ==
    LET invoked == <<Event("extract", conversations, <<>>, 0, 0)>>
        request == <<Event("request", <<>>, conversations_to_text(conversations), 0, 0)>>
        nothing == [db |-> db, seq |-> seq, now |-> t, events |-> invoked]
        parsed == json_loads(cleaned_response(resp.text))
    IN IF conversations = <<>> THEN nothing
       ELSE IF personality_id = None \/ ~cl THEN nothing
       ELSE IF resp.raises
            THEN [nothing EXCEPT !.events = invoked \o request]
       ELSE IF ~parsed.ok \/ parsed.value.kind # "list"
            THEN [nothing EXCEPT !.events = invoked \o request]
       ELSE LET s == SaveMemories(parsed.value.items, personality_id, db, seq, t, <<>>)
            IN [db |-> s.db, seq |-> s.seq, now |-> s.now,
                events |-> invoked \o request \o s.events]

(***************************************************************************)
(* The conversation buffer (ChatEngine)                                    *)
(***************************************************************************)
\* eviction only once the buffer is longer than the limit
manage_above_limit(history, personality_id, cl, db, seq, t, resp) ==
    IF Len(history) > max_chat_history
    THEN LET early_conversations == Take(history, memory_extract_count)
             x == extract_memories_from_conversations(
                      early_conversations, personality_id, cl, db, seq, t, resp)
         IN [history |-> Drop(history, memory_extract_count),
             db |-> x.db, seq |-> x.seq, now |-> x.now,
             events |-> x.events \o
                        <<Event("remove", early_conversations, <<>>, 0,
                                Len(Drop(history, memory_extract_count)))>>]
    ELSE [history |-> history, db |-> db, seq |-> seq, now |-> t, events |-> <<>>]

\* eviction that extracts the oldest turns but keeps them and drops the newest
manage_dropping_newest(history, personality_id, cl, db, seq, t, resp) ==
    IF Len(history) >= max_chat_history
    THEN LET early_conversations == Take(history, memory_extract_count)
             x == extract_memories_from_conversations(
                      early_conversations, personality_id, cl, db, seq, t, resp)
             kept == Take(history, Len(history) - memory_extract_count)
         IN [history |-> kept,
             db |-> x.db, seq |-> x.seq, now |-> x.now,
             events |-> x.events \o
                        <<Event("remove", early_conversations, <<>>, 0, Len(kept))>>]
    ELSE [history |-> history, db |-> db, seq |-> seq, now |-> t, events |-> <<>>]

\* eviction that removes the slice first and extracts afterwards
manage_removing_first(history, personality_id, cl, db, seq, t, resp) ==
    IF Len(history) >= max_chat_history
    THEN LET early_conversations == Take(history, memory_extract_count)
             x == extract_memories_from_conversations(
                      early_conversations, personality_id, cl, db, seq, t, resp)
         IN [history |-> Drop(history, memory_extract_count),
             db |-> x.db, seq |-> x.seq, now |-> x.now,
             events |-> <<Event("remove", early_conversations, <<>>, 0,
                                Len(Drop(history, memory_extract_count)))>>
                        \o x.events]
    ELSE [history |-> history, db |-> db, seq |-> seq, now |-> t, events |-> <<>>]

\* ChatEngine._manage_chat_history_before_add
manage_chat_history_before_add(history, personality_id, cl, db, seq, t, resp) ==
    IF Len(history) >= max_chat_history
    THEN LET early_conversations == Take(history, memory_extract_count)
             x == extract_memories_from_conversations(
                      early_conversations, personality_id, cl, db, seq, t, resp)
         IN [history |-> Drop(history, memory_extract_count),
             db |-> x.db, seq |-> x.seq, now |-> x.now,
             events |-> x.events \o
                        <<Event("remove", early_conversations, <<>>, 0,
                                Len(Drop(history, memory_extract_count)))>>]
    ELSE [history |-> history, db |-> db, seq |-> seq, now |-> t, events |-> <<>>]

\* ChatEngine._generate_response: the reply text
generate_response(personality_id, cl, reply) ==
    IF personality_id = None THEN "sorry: cannot reply"
    ELSE IF ~cl THEN "sorry: service not configured"
    ELSE IF reply = "raise" THEN "sorry: technical problem"
    ELSE "reply"

\* TRUE iff generating the reply sends a request to the capability
ReplyCalls(personality_id, cl) == personality_id # None /\ cl

\* line 585: the line of one memory, "- content (category, importance)"
MemoryLine(memory) == <<"-", memory.content, memory.category, memory.importance>>

\* a context that lists every memory it is given
context_of_all(personality_id, recalled) ==
    [persona |-> personality_id,
     memories |-> [i \in 1..Len(recalled) |-> MemoryLine(recalled[i])]]

\* ChatEngine._build_ai_context: the part about the persona, then a line
\* for each of the first ContextLimit memories
build_ai_context(personality_id, recalled) ==
    [persona |-> personality_id,
     memories |-> [i \in 1..Len(Take(recalled, ContextLimit)) |->
                      MemoryLine(recalled[i])]]

\* Python s[-n:] for n > 0
Last(s, n) == SubSeq(s, Len(s) - Min(n, Len(s)) + 1, Len(s))

\* lines 604-607: the role of the message made from a turn
Role(sender) == IF sender = "user" THEN "user" ELSE "assistant"

\* a conversation history that keeps the system turns
history_with_system_turns(history) ==
    [i \in 1..Len(Last(history, WindowLength)) |->
        [role |-> IF Last(history, WindowLength)[i].sender = "system"
                  THEN "system"
                  ELSE Role(Last(history, WindowLength)[i].sender),
         content |-> Last(history, WindowLength)[i].content]]

\* ChatEngine._build_conversation_history: a message for every user and ai
\* turn among the last WindowLength turns
build_conversation_history(history) ==
    CHOOSE messages \in
        { [i \in 1..Len(recent_messages) |->
              [role |-> Role(recent_messages[i].sender),
               content |-> recent_messages[i].content]] :
          recent_messages \in
              {SelectSeq(Last(history, WindowLength),
                         LAMBDA msg : msg.sender \in {"user", "ai"})} } : TRUE

\* lines 494-515: the messages of the request for a reply. The rows of a
\* persona never tie on importance and timestamp in a run of the engine
\* (the clock advances with every item), so get_memories has one result.
\* (history: the buffer with the user turn already appended)
reply_messages(history, personality_id, db, user_input) ==
    CHOOSE messages \in
        { <<[role |-> "system",
             content |-> build_ai_context(personality_id, recalled)]>>
          \o build_conversation_history(history)
          \o <<[role |-> "user", content |-> user_input]>> :
          recalled \in get_memories(db, personality_id, RecallLimit) } : TRUE

\* send_message that gives the turn up when the extraction or the reply fails
send_message_stopping_on_failure(history, personality_id, cl, db, seq, t, content, resp, reply) ==
    LET m == manage_chat_history_before_add(history, personality_id, cl, db, seq, t, resp)
        user_message == ChatMessage(content, "user", m.now)
        ai_response == generate_response(personality_id, cl, reply)
        ai_message == ChatMessage(ai_response, "ai", m.now + 1)
        h1 == Append(m.history, user_message)
        h2 == Append(h1, ai_message)
    IN IF \/ resp.raises
          \/ \E i \in 1..Len(m.events) : m.events[i].e = "raise"
          \/ ai_response # "reply"
       THEN [history |-> m.history,
             db |-> m.db, seq |-> m.seq, now |-> m.now + 2,
             ret |-> None, events |-> m.events]
       ELSE [history |-> h2,
             db |-> m.db, seq |-> m.seq, now |-> m.now + 2,
             ret |-> ai_response,
             events |-> m.events \o
                        <<Event("append", <<user_message>>, <<>>, 0, Len(h1)),
                          Event("append", <<ai_message>>, <<>>, 0, Len(h2))>>]

\* ChatEngine.send_message
send_message_result(history, personality_id, cl, db, seq, t, content, resp, reply) ==
    LET m == manage_chat_history_before_add(history, personality_id, cl, db, seq, t, resp)
        user_message == ChatMessage(content, "user", m.now)
        ai_response == generate_response(personality_id, cl, reply)
        ai_message == ChatMessage(ai_response, "ai", m.now + 1)
        h1 == Append(m.history, user_message)
        h2 == Append(h1, ai_message)
    IN [history |-> h2,
        db |-> m.db, seq |-> m.seq, now |-> m.now + 2,
        ret |-> ai_response,
        events |-> m.events \o <<Event("append", <<user_message>>, <<>>, 0, Len(h1)),
                                 Event("append", <<ai_message>>, <<>>, 0, Len(h2))>>]

\* ChatEngine.send_message with the request for the reply in its event log,
\* between the two appends
send_message_asking(history, personality_id, cl, db, seq, t, content, resp, reply) ==
    CHOOSE asked \in
        { [r EXCEPT !.events =
              Take(r.events, Len(r.events) - 1)
              \o (IF ReplyCalls(personality_id, cl)
                  THEN <<Event("reply",
                               reply_messages(Take(r.history, Len(r.history) - 1),
                                              personality_id, r.db, content),
                               <<>>, 0, Len(r.history) - 1)>>
                  ELSE <<>>)
              \o Drop(r.events, Len(r.events) - 1)] :
          r \in {send_message_result(history, personality_id, cl, db, seq, t,
                                     content, resp, reply)} } : TRUE

\* clear that extracts only the oldest memory_extract_count turns
clear_extracting_one_batch(history, personality_id, cl, db, seq, t, resp) ==
    LET x == IF Len(history) > 0
             THEN extract_memories_from_conversations(
                      Take(history, memory_extract_count),
                      personality_id, cl, db, seq, t, resp)
             ELSE [db |-> db, seq |-> seq, now |-> t, events |-> <<>>]
    IN [history |-> <<>>, db |-> x.db, seq |-> x.seq, now |-> x.now,
        events |-> x.events \o <<Event("remove", history, <<>>, 0, 0)>>]

\* clear that also forgets what the current persona remembers
clear_forgetting_persona(history, personality_id, cl, db, seq, t, resp) ==
    LET x == IF Len(history) > 0
             THEN extract_memories_from_conversations(
                      history, personality_id, cl, db, seq, t, resp)
             ELSE [db |-> db, seq |-> seq, now |-> t, events |-> <<>>]
    IN [history |-> <<>>,
        db |-> {r \in x.db : r.personality_id # personality_id},
        seq |-> x.seq, now |-> x.now,
        events |-> x.events \o <<Event("remove", history, <<>>, 0, 0)>>]

\* ChatEngine.clear_chat_history
clear_chat_history_result(history, personality_id, cl, db, seq, t, resp) ==
    LET x == IF Len(history) > 0
             THEN extract_memories_from_conversations(
                      history, personality_id, cl, db, seq, t, resp)
             ELSE [db |-> db, seq |-> seq, now |-> t, events |-> <<>>]
    IN [history |-> <<>>, db |-> x.db, seq |-> x.seq, now |-> x.now,
        events |-> x.events \o <<Event("remove", history, <<>>, 0, 0)>>]

\* ChatEngine.switch_personality
switch_personality_result(history, cur, t, personality_id) ==
    LET s == set_personality(cur, personality_id)
    IN IF s.ok
       THEN [ok |-> TRUE, current |-> s.current, now |-> t + 1,
             history |-> Append(history,
                                ChatMessage(SwitchMessage(s.current), "system", t))]
       ELSE [ok |-> FALSE, current |-> cur, now |-> t, history |-> history]

(***************************************************************************)
(* State machine of the chat engine                                        *)
(***************************************************************************)
\* what the user types
Contents == {"hello"}

\* the record kept of the operation that completed last
\* (pre_history, pre_memories: the buffer and the table when it was called)
Done(op, arg, ret, events) ==
    [op |-> op, arg |-> arg, ret |-> ret, events |-> events,
     pre_history |-> chat_history, pre_memories |-> memories]

\* the sessions that may use the store at the same time
Sessions == 1..MaxSessions

\* a connection that is not inside a call
Closed == [pc |-> "closed"]

\* no session is inside a call and none has completed one
NoSessions == [conn |-> [s \in Sessions |-> Closed], calls |-> <<>>]

Init ==
    /\ chat_history = <<>>
    /\ current_personality \in {default_personality, None}
    /\ client \in BOOLEAN
    /\ memories = {}
    /\ sqlite_sequence = 0
    /\ now = 1
    /\ used = 0
    /\ last = [op |-> "init", arg |-> None, ret |-> None, events |-> <<>>,
               pre_history |-> <<>>, pre_memories |-> {}]
    /\ sessions = NoSessions

\* the irregular events of one call: an extraction request that raises or is
\* answered with a list that holds an object without text, a reply request
\* that raises
Errors(resp, reply) ==
    (IF resp.raises \/ resp = Answer(<<JsonList(<<ArrayObject, NullObject, FullObject>>)>>)
     THEN 1 ELSE 0)
    + (IF reply = "raise" THEN 1 ELSE 0)

send_message(content, resp, reply) ==
    LET r == send_message_result(chat_history, current_personality, client, memories,
                                 sqlite_sequence, now, content, resp, reply)
    IN /\ now + 2 <= MaxClock
       /\ used + Errors(resp, reply) <= MaxIrregular
       /\ chat_history' = r.history
       /\ memories' = r.db
       /\ sqlite_sequence' = r.seq
       /\ now' = r.now
       /\ used' = used + Errors(resp, reply)
       /\ last' = Done("send_message",
                       [content |-> content, resp |-> resp, reply |-> reply],
                       r.ret, r.events)
       /\ UNCHANGED <<sessions, current_personality, client>>

SendMessage ==
    \E content \in Contents :
    \E resp \in (IF /\ Len(chat_history) >= max_chat_history
                    /\ ExtractionCalls(Take(chat_history, memory_extract_count),
                                       current_personality, client)
                 THEN Responses ELSE {NoCall}) :
    \E reply \in (IF ReplyCalls(current_personality, client)
                  THEN {"ok", "raise"} ELSE {"none"}) :
        send_message(content, resp, reply)

clear_chat_history(resp) ==
    LET r == clear_chat_history_result(chat_history, current_personality, client,
                                       memories, sqlite_sequence, now, resp)
    IN /\ used + 1 + Errors(resp, "none") <= MaxIrregular
       /\ chat_history' = r.history
       /\ memories' = r.db
       /\ sqlite_sequence' = r.seq
       /\ now' = r.now
       /\ used' = used + 1 + Errors(resp, "none")
       /\ last' = Done("clear_chat_history", [resp |-> resp], None, r.events)
       /\ UNCHANGED <<sessions, current_personality, client>>

ClearChatHistory ==
    \E resp \in (IF ExtractionCalls(chat_history, current_personality, client)
                 THEN Responses ELSE {NoCall}) :
        clear_chat_history(resp)

switch_personality(personality_id) ==
    LET r == switch_personality_result(chat_history, current_personality, now,
                                       personality_id)
    IN /\ used < MaxIrregular
       /\ now + 1 <= MaxClock
       /\ chat_history' = r.history
       /\ current_personality' = r.current
       /\ now' = r.now
       /\ used' = used + 1
       /\ last' = Done("switch_personality", personality_id, r.ok, <<>>)
       /\ UNCHANGED <<sessions, client, memories, sqlite_sequence>>

SwitchPersonality ==
    \E personality_id \in personalities \cup {UnknownPersonality} :
        switch_personality(personality_id)

\* ChatEngine.get_chat_history: a copy of the buffer
get_chat_history ==
    /\ last' = Done("get_chat_history", None, chat_history, <<>>)
    /\ UNCHANGED <<sessions, chat_history, current_personality, client, memories,
                   sqlite_sequence, now, used>>

Next == SendMessage \/ ClearChatHistory \/ SwitchPersonality \/ get_chat_history

Spec == Init /\ [][Next]_vars

\* only append steps
SpecAppend == Init /\ [][SendMessage]_vars

(***************************************************************************)
(* State machine of the memory store alone                                 *)
(***************************************************************************)
Importances == {3, 5}
Categories == {"general"}
StoreContents == {"fact"}

\* the arguments of update_memory that are not None
UpdateFields == { <<>>, [importance |-> 5] }

InitStore == Init /\ client /\ current_personality = default_personality

AddMemory ==
    \E personality_id \in personalities, content \in StoreContents \cup NotText,
       category \in Categories, importance \in Importances, tick \in {0, 1} :
        \* the item is created at the current time; the clock may not have
        \* advanced when the next one is created (only the order of the
        \* timestamps of rows matters, so a failed add leaves the clock alone)
        LET item == MemoryItem(content, category, importance, now, <<>>)
            a == add_memory(memories, sqlite_sequence, personality_id, item)
        IN /\ sqlite_sequence < MaxRows
           /\ memories' = a.db
           /\ sqlite_sequence' = a.seq
           /\ last' = Done("add_memory",
                           [personality_id |-> personality_id,
                            item |-> [item EXCEPT !.id = a.id]],
                           a.ok,
                           IF a.raises THEN <<Event("raise", <<>>, <<>>, 0, 0)>>
                                       ELSE <<>>)
           /\ now' = IF a.ok THEN now + tick ELSE now
           /\ UNCHANGED <<sessions, chat_history, current_personality, client, used>>

GetMemories ==
    \E personality_id \in personalities, limit \in 0..MaxLimit :
    \E result \in get_memories(memories, personality_id, limit) :
        /\ last' = Done("get_memories",
                        [personality_id |-> personality_id, limit |-> limit],
                        result, <<>>)
        /\ UNCHANGED <<sessions, chat_history, current_personality, client, memories,
                       sqlite_sequence, now, used>>

UpdateMemory ==
    \E memory_id \in 1..(MaxRows + 1), fields \in UpdateFields :
        LET u == update_memory(memories, memory_id, fields)
        IN /\ memories' = u.db
           /\ last' = Done("update_memory",
                           [memory_id |-> memory_id, fields |-> fields],
                           u.ok, <<>>)
           /\ UNCHANGED <<sessions, chat_history, current_personality, client,
                          sqlite_sequence, now, used>>

DeleteMemory ==
    \E memory_id \in 1..(MaxRows + 1) :
        LET d == delete_memory(memories, memory_id)
        IN /\ memories' = d.db
           /\ last' = Done("delete_memory", memory_id, d.ok, <<>>)
           /\ UNCHANGED <<sessions, chat_history, current_personality, client,
                          sqlite_sequence, now, used>>

NextStore == AddMemory \/ GetMemories \/ UpdateMemory \/ DeleteMemory

SpecStore == InitStore /\ [][NextStore]_vars

(***************************************************************************)
(* State machine of the memory store with records of different content     *)
(***************************************************************************)
\* what AddRecord stores: content, category, importance, tags
Catalogue ==
    { [content |-> "Tea", category |-> "preference", importance |-> 5,
       tags |-> <<"drink">>],
      [content |-> "pot", category |-> "general", importance |-> 3,
       tags |-> <<>>] }

\* the arguments of update_memory that are not None
EditFields ==
    { [importance |-> 1],
      [content |-> "tea pot", category |-> "event", tags |-> <<"edited">>] }

AddRecord ==
    \E personality_id \in personalities, entry \in Catalogue :
        LET item == MemoryItem(entry.content, entry.category, entry.importance,
                               now, entry.tags)
            a == add_memory(memories, sqlite_sequence, personality_id, item)
        IN /\ sqlite_sequence < MaxRecords
           /\ memories' = a.db
           /\ sqlite_sequence' = a.seq
           /\ last' = Done("add_memory",
                           [personality_id |-> personality_id,
                            item |-> [item EXCEPT !.id = a.id]],
                           a.ok, <<>>)
           /\ now' = now + 1
           /\ UNCHANGED <<sessions, chat_history, current_personality, client, used>>

EditMemory ==
    \E memory_id \in 1..(MaxRecords + 1), fields \in EditFields :
        LET u == update_memory(memories, memory_id, fields)
        IN /\ memories' = u.db
           /\ last' = Done("update_memory",
                           [memory_id |-> memory_id, fields |-> fields],
                           u.ok, <<>>)
           /\ UNCHANGED <<sessions, chat_history, current_personality, client,
                          sqlite_sequence, now, used>>

\* what is searched for
Keywords == {"tea", "o", "_"}

SearchMemories ==
    \E personality_id \in personalities, keyword \in Keywords :
    \E result \in search_memories(memories, personality_id, keyword) :
        /\ last' = Done("search_memories",
                        [personality_id |-> personality_id, keyword |-> keyword],
                        result, <<>>)
        /\ UNCHANGED <<sessions, chat_history, current_personality, client, memories,
                       sqlite_sequence, now, used>>

GetMemorySummary ==
    \E personality_id \in personalities :
    \E summary \in get_memory_summary(memories, personality_id) :
        /\ last' = Done("get_memory_summary", personality_id, summary, <<>>)
        /\ UNCHANGED <<sessions, chat_history, current_personality, client, memories,
                       sqlite_sequence, now, used>>

NextRecords ==
    AddRecord \/ EditMemory \/ DeleteMemory \/ SearchMemories \/ GetMemorySummary

SpecRecords == InitStore /\ [][NextRecords]_vars

(***************************************************************************)
(* State machine of the memory store with more rows than a summary lists   *)
(***************************************************************************)
NoteCategories == {"general", "event"}

AddNote ==
    \E personality_id \in personalities, category \in NoteCategories :
        LET item == MemoryItem("Tea", category, 3, now, <<>>)
            a == add_memory(memories, sqlite_sequence, personality_id, item)
        IN /\ sqlite_sequence < MaxNotes
           /\ memories' = a.db
           /\ sqlite_sequence' = a.seq
           /\ last' = Done("add_memory",
                           [personality_id |-> personality_id,
                            item |-> [item EXCEPT !.id = a.id]],
                           a.ok, <<>>)
           /\ now' = now + 1
           /\ UNCHANGED <<sessions, chat_history, current_personality, client, used>>

NextSummary == AddNote \/ DeleteMemory \/ GetMemorySummary

SpecSummary == InitStore /\ [][NextSummary]_vars

(***************************************************************************)
(* State machine of the chat engine with the memory panel of the UI        *)
(* (src/src/ui/memory_widget.py), which calls the store of the engine      *)
(***************************************************************************)
\* MemoryWidget.add_memory: a record typed into the dialog, filed under the
\* current persona
PanelAdd ==
    LET item == MemoryItem("note", "general", 3, now, <<>>)
        a == add_memory(memories, sqlite_sequence, current_personality, item)
    IN /\ current_personality # None
       /\ used < MaxIrregular
       /\ now + 1 <= MaxClock
       /\ memories' = a.db
       /\ sqlite_sequence' = a.seq
       /\ now' = now + 1
       /\ used' = used + 1
       /\ last' = Done("add_memory",
                       [personality_id |-> current_personality,
                        item |-> [item EXCEPT !.id = a.id]],
                       a.ok, <<>>)
       /\ UNCHANGED <<sessions, chat_history, current_personality, client>>

\* the ids of the records the panel shows: the list is read again after every
\* change the panel makes, and only the panel deletes
Shown == {r.id : r \in memories}

\* MemoryWidget.edit_memory: content, category and importance from the dialog
PanelEdit ==
    \E memory_id \in Shown :
        LET fields == [content |-> "edited", category |-> "event", importance |-> 5]
            u == update_memory(memories, memory_id, fields)
        IN /\ used < MaxIrregular
           /\ memories' = u.db
           /\ used' = used + 1
           /\ last' = Done("update_memory",
                           [memory_id |-> memory_id, fields |-> fields],
                           u.ok, <<>>)
           /\ UNCHANGED <<sessions, chat_history, current_personality, client,
                          sqlite_sequence, now>>

\* MemoryWidget.delete_memory, for a record the panel shows
PanelDelete ==
    \E memory_id \in Shown :
        LET d == delete_memory(memories, memory_id)
        IN /\ used < MaxIrregular
           /\ memories' = d.db
           /\ used' = used + 1
           /\ last' = Done("delete_memory", memory_id, d.ok, <<>>)
           /\ UNCHANGED <<sessions, chat_history, current_personality, client,
                          sqlite_sequence, now>>

NextApp ==
    \/ SendMessage \/ ClearChatHistory \/ SwitchPersonality
    \/ PanelAdd \/ PanelEdit \/ PanelDelete

SpecApp == InitStore /\ [][NextApp]_vars

(***************************************************************************)
(* State machine of the extraction: short conversations that are cleared,  *)
(* with a wider choice of answers to the extraction request                *)
(***************************************************************************)
\* an object that has an importance and tags but no category
PartialObject == [content |-> "has a cat", importance |-> 5, tags |-> <<"pet">>]

\* a JSON value of "importance" that is not a number: the string "high".
\* get() hands it on; the INTEGER column converts only text that spells a
\* number and keeps this one as TEXT, which ORDER BY places after every
\* number. Values of two types cannot be compared in one run of the model,
\* so the text is written as an integer above every importance that is one.
TextImportance == 1000
IsNumber(importance) == importance # TextImportance

\* an object whose importance is that string
TextObject == [content |-> "new job", importance |-> TextImportance]

\* an object whose importance is a number outside 1..5
DistantObject == [content |-> "moved house", category |-> "event", importance |-> 7]

\* the answers to the extraction request of a clear
ExtractionAnswers ==
    { ApiError,
      Answer(<<JsonList(<<DistantObject>>)>>),
      Answer(<<JsonList(<<TextObject, BareObject>>)>>),
      Answer(<<JsonList(<<FullObject, BareObject>>)>>),
      Answer(<<FenceJson, JsonList(<<FullObject, BareObject>>), Fence>>),
      Answer(<<Fence, JsonList(<<FullObject, BareObject>>), Fence>>),
      Answer(<<JsonList(<<PartialObject>>)>>) }

\* send_message while the conversation is short: no eviction yet
Talk ==
    \E content \in Contents :
    \E reply \in (IF ReplyCalls(current_personality, client)
                  THEN {"ok", "raise"} ELSE {"none"}) :
        /\ Len(chat_history) < 2 * MaxTalk
        /\ send_message(content, NoCall, reply)

\* clear_chat_history of such a conversation
ClearAfterTalk ==
    \E resp \in (IF ExtractionCalls(chat_history, current_personality, client)
                 THEN ExtractionAnswers ELSE {NoCall}) :
        clear_chat_history(resp)

NextExtraction == Talk \/ ClearAfterTalk \/ SwitchPersonality

SpecExtraction == InitStore /\ [][NextExtraction]_vars

(***************************************************************************)
(* State machines of the chat engine that log the request for the reply    *)
(***************************************************************************)
\* ChatEngine.send_message
AskMessage ==
    \E content \in Contents :
    \E resp \in (IF /\ Len(chat_history) >= max_chat_history
                    /\ ExtractionCalls(Take(chat_history, memory_extract_count),
                                       current_personality, client)
                 THEN Responses ELSE {NoCall}) :
    \E reply \in (IF ReplyCalls(current_personality, client)
                  THEN {"ok", "raise"} ELSE {"none"}) :
        LET r == send_message_asking(chat_history, current_personality, client,
                                     memories, sqlite_sequence, now, content,
                                     resp, reply)
        IN /\ now + 2 <= MaxClock
           /\ used + Errors(resp, reply) <= MaxIrregular
           /\ chat_history' = r.history
           /\ memories' = r.db
           /\ sqlite_sequence' = r.seq
           /\ now' = r.now
           /\ used' = used + Errors(resp, reply)
           /\ last' = Done("send_message",
                           [content |-> content, resp |-> resp, reply |-> reply],
                           r.ret, r.events)
           /\ UNCHANGED <<sessions, current_personality, client>>

NextWindow == AskMessage \/ SwitchPersonality

\* long conversations with changes of persona
SpecWindow == InitStore /\ [][NextWindow]_vars

\* what is stored before the conversation: persona, importance
Facts ==
    { [personality_id |-> "friendly", importance |-> 2],
      [personality_id |-> "friendly", importance |-> 4],
      [personality_id |-> "rational", importance |-> 3] }

\* MemoryManager.add_memory, before the conversation starts
AddFact ==
    \E fact \in Facts :
        LET item == MemoryItem("fact", "general", fact.importance, now, <<>>)
            a == add_memory(memories, sqlite_sequence, fact.personality_id, item)
        IN /\ chat_history = <<>>
           /\ sqlite_sequence < MaxFacts
           /\ memories' = a.db
           /\ sqlite_sequence' = a.seq
           /\ now' = now + 1
           /\ last' = Done("add_memory",
                           [personality_id |-> fact.personality_id,
                            item |-> [item EXCEPT !.id = a.id]],
                           a.ok, <<>>)
           /\ UNCHANGED <<sessions, chat_history, current_personality, client, used>>

\* the first send_message of the conversation
AskFirst == chat_history = <<>> /\ AskMessage

NextContext == AddFact \/ AskFirst

\* the start of a conversation over a store with more records than a
\* context lists
SpecContext == InitStore /\ [][NextContext]_vars

(***************************************************************************)
(* State machine of several sessions that use one database file: every     *)
(* call of the store opens a connection of its own, executes one           *)
(* statement and commits                                                   *)
(***************************************************************************)
\* the calls the sessions make
StoreCalls ==
    { [op |-> "add_memory", personality_id |-> default_personality,
       item |-> MemoryItem(entry.content, entry.category, entry.importance,
                           1, entry.tags)] : entry \in Catalogue }
    \cup { [op |-> "update_memory", memory_id |-> memory_id, fields |-> fields] :
             memory_id \in 1..2, fields \in EditFields }
    \cup { [op |-> "delete_memory", memory_id |-> memory_id] : memory_id \in 1..2 }

\* the statement of a call, executed on the table db: the table and the
\* sequence afterwards, what the call will return, the id set on the item
Statement(call, db, seq) ==
    CASE call.op = "add_memory" ->
             [db |-> add_memory(db, seq, call.personality_id, call.item).db,
              seq |-> add_memory(db, seq, call.personality_id, call.item).seq,
              ret |-> add_memory(db, seq, call.personality_id, call.item).ok,
              id |-> add_memory(db, seq, call.personality_id, call.item).id]
      [] call.op = "update_memory" ->
             [db |-> update_memory(db, call.memory_id, call.fields).db,
              seq |-> seq,
              ret |-> update_memory(db, call.memory_id, call.fields).ok,
              id |-> 0]
      [] call.op = "delete_memory" ->
             [db |-> delete_memory(db, call.memory_id).db,
              seq |-> seq,
              ret |-> delete_memory(db, call.memory_id).ok,
              id |-> 0]

\* a storage engine without a write lock
no_write_lock(ss, s) == TRUE

\* SQLite gives the write lock of the database file to one connection at a
\* time, from its first writing statement to its commit; the statement of
\* another connection waits for it
WriteLockFree(ss, s) ==
    \A o \in Sessions \ {s} : ss.conn[o].pc # "executed"

\* sqlite3.connect: session s enters a call
Connect(s) ==
    \E call \in StoreCalls :
        /\ sessions.conn[s] = Closed
        /\ Len(sessions.calls)
               + Cardinality({o \in Sessions : sessions.conn[o] # Closed}) < MaxCalls
        /\ sessions' = [sessions EXCEPT !.conn[s] = [pc |-> "connected", call |-> call]]
        /\ UNCHANGED <<chat_history, current_personality, client, memories,
                       sqlite_sequence, now, used, last>>

\* cursor.execute: the statement runs on the committed table and its
\* changes stay with the connection until the commit
Execute(s) ==
    /\ sessions.conn[s].pc = "connected"
    /\ WriteLockFree(sessions, s)
    /\ sessions' = [sessions EXCEPT !.conn[s] =
                        [pc |-> "executed", call |-> sessions.conn[s].call,
                         result |-> Statement(sessions.conn[s].call, memories,
                                              sqlite_sequence)]]
    /\ UNCHANGED <<chat_history, current_personality, client, memories,
                   sqlite_sequence, now, used, last>>

\* conn.commit, conn.close and the return of the call
Commit(s) ==
    /\ sessions.conn[s].pc = "executed"
    /\ memories' = sessions.conn[s].result.db
    /\ sqlite_sequence' = sessions.conn[s].result.seq
    /\ sessions' = [conn |-> [sessions.conn EXCEPT ![s] = Closed],
                    calls |-> Append(sessions.calls,
                                     [session |-> s,
                                      call |-> sessions.conn[s].call,
                                      ret |-> sessions.conn[s].result.ret,
                                      id |-> sessions.conn[s].result.id])]
    /\ last' = Done(sessions.conn[s].call.op, sessions.conn[s].call,
                    sessions.conn[s].result.ret, <<>>)
    /\ UNCHANGED <<chat_history, current_personality, client, now, used>>

NextSessions == \E s \in Sessions : Connect(s) \/ Execute(s) \/ Commit(s)

SpecSessions == InitStore /\ [][NextSessions]_vars

(***************************************************************************)
(* Properties                                                              *)
(***************************************************************************)
\* the positions in the event log of the last operation that hold event e
EventsOf(e) == {i \in 1..Len(last.events) : last.events[i].e = e}

\* the last operation was a send_message that evicted
Evicted == last.op = "send_message" /\ EventsOf("remove") # {}

\* C1: after every public operation of the chat engine the buffer holds at
\* most max_chat_history turns.
C1_BufferAtMostLimit == Len(chat_history) <= max_chat_history

\* C2: in a run of send_message calls only, the buffer holds at most
\* max_chat_history turns after each call.
C2_AppendsKeepLimit ==
    last.op = "send_message" => Len(chat_history) <= max_chat_history

\* a send_message found the buffer full, evicted, and left it below the limit
C2_Witness ==
    /\ last.op = "send_message"
    /\ Len(last.pre_history) = max_chat_history
    /\ Len(chat_history) = max_chat_history - memory_extract_count + 2

\* C3: a send_message called with fewer than max_chat_history turns in the
\* buffer evicts nothing; called with exactly max_chat_history turns it evicts
\* exactly memory_extract_count turns, and the buffer holds
\* max_chat_history - memory_extract_count + 1 turns once the user turn is appended.
C3_EvictionAtWatermark ==
    last.op = "send_message" =>
        LET n == Len(last.pre_history)
            userAppend == {i \in EventsOf("append") :
                              last.events[i].turns[1].sender = "user"}
        IN /\ n < max_chat_history =>
                /\ EventsOf("remove") = {}
                /\ EventsOf("extract") = {}
                /\ SubSeq(chat_history, 1, n) = last.pre_history
           /\ n = max_chat_history =>
                /\ Cardinality(EventsOf("remove")) = 1
                /\ \A i \in EventsOf("remove") :
                       /\ Len(last.events[i].turns) = memory_extract_count
                       /\ last.events[i].len = max_chat_history - memory_extract_count
                /\ Cardinality(userAppend) = 1
                /\ \A i \in userAppend :
                       last.events[i].len = max_chat_history - memory_extract_count + 1

\* a send_message that found exactly max_chat_history turns
C3_Witness ==
    /\ last.op = "send_message"
    /\ Len(last.pre_history) = max_chat_history
    /\ EventsOf("remove") # {}

\* C4: an eviction removes the first memory_extract_count turns and nothing
\* else: the turns that follow them stay, unchanged and in order, and the
\* slice given to the extraction is the removed prefix.
C4_EvictionRemovesPrefix ==
    Evicted =>
        LET pre == last.pre_history
            n == Len(last.pre_history)
            prefix == SubSeq(last.pre_history, 1, memory_extract_count)
        IN /\ \A i \in EventsOf("remove") : last.events[i].turns = prefix
           /\ EventsOf("extract") # {}
           /\ \A i \in EventsOf("extract") : last.events[i].turns = prefix
           /\ \A i \in EventsOf("request") :
                  last.events[i].text = conversations_to_text(prefix)
           /\ Len(chat_history) = n - memory_extract_count + 2
           /\ \A k \in 1..(n - memory_extract_count) :
                  chat_history[k] = pre[k + memory_extract_count]

\* an eviction whose slice went to the capability and whose survivors include
\* a system turn
C4_Witness ==
    /\ Evicted
    /\ EventsOf("request") # {}
    /\ \E k \in 1..Len(chat_history) : chat_history[k].sender = "system"

\* the answer to the extraction request cannot be used: the call raised, the
\* text holds no JSON, or it is a JSON value that is not a list
FailedAnswer(resp) ==
    \/ resp.raises
    \/ \A i \in 1..Len(resp.text) : resp.text[i].tok # "value"
    \/ /\ Len(resp.text) = 1
       /\ resp.text[1].tok = "value"
       /\ resp.text[1].value.kind # "list"

\* C5: when the extraction of an eviction slice fails (the call raises, or
\* the answer is not JSON or not a JSON list), the slice is removed all the
\* same and the table of memories is left as it was.
C5_FailedExtractionLosesOnlySlice ==
    (Evicted /\ EventsOf("request") # {} /\ FailedAnswer(last.arg.resp)) =>
        /\ memories = last.pre_memories
        /\ EventsOf("add") = {}
        /\ Len(chat_history) = Len(last.pre_history) - memory_extract_count + 2
        /\ \A k \in 1..(Len(last.pre_history) - memory_extract_count) :
               chat_history[k] = last.pre_history[k + memory_extract_count]

\* an eviction whose answer was a JSON object instead of a list
C5_Witness ==
    /\ Evicted
    /\ EventsOf("request") # {}
    /\ last.arg.resp = Answer(<<JsonObject>>)

\* the answer is a JSON list, bare or inside a ```json fence
YieldsList(resp) ==
    /\ ~resp.raises
    /\ \/ Len(resp.text) = 1
       \/ /\ Len(resp.text) = 3
          /\ resp.text[1].tok = "fence_json"
          /\ resp.text[3].tok = "fence"
    /\ resp.text[(Len(resp.text) + 1) \div 2].tok = "value"
    /\ resp.text[(Len(resp.text) + 1) \div 2].value.kind = "list"

\* the objects of such an answer
ListOf(resp) == resp.text[(Len(resp.text) + 1) \div 2].value.items

\* every object of the list has text for its content, or no content at all
WellFormed(items) ==
    \A k \in 1..Len(items) : Get(items[k], "content", "") \notin NotText

\* C6: when the extraction of an evicted slice yields a JSON list of m
\* record objects (each with text for its content), m rows are new in the table after the eviction, one per object,
\* get_memories returns all of them for the current persona and none of them
\* for any other persona.
C6_ExtractedRecordsRetrievable ==
    (/\ Evicted
     /\ EventsOf("request") # {}
     /\ YieldsList(last.arg.resp)
     /\ WellFormed(ListOf(last.arg.resp))) =>
        LET items == ListOf(last.arg.resp)
            new == memories \ last.pre_memories
            newIds == {r.id : r \in new}
        IN /\ Cardinality(newIds) = Len(items)
           /\ \A r \in new : \A q \in last.pre_memories : q.id # r.id
           /\ \A result \in get_memories(memories, current_personality, DefaultListLimit) :
                  /\ newIds \subseteq {result[i].id : i \in 1..Len(result)}
                  /\ \A k \in 1..Len(items) :
                         \E i \in 1..Len(result) :
                             /\ result[i].id \in newIds
                             /\ result[i].content = items[k].content
           /\ \A p \in personalities \ {current_personality} :
                  \A result \in get_memories(memories, p, DefaultListLimit) :
                      \A i \in 1..Len(result) : result[i].id \notin newIds

\* an eviction under a persona other than the default one that yields two records
C6_Witness ==
    /\ Evicted
    /\ EventsOf("request") # {}
    /\ YieldsList(last.arg.resp)
    /\ Len(ListOf(last.arg.resp)) = 2
    /\ current_personality = "rational"

\* C7 as stated: whenever a send_message removes an eviction slice, a request
\* to extract from that slice was sent to the capability before the removal.
C7_RequestBeforeEveryRemoval ==
    last.op = "send_message" =>
        \A j \in EventsOf("remove") :
            \E i \in EventsOf("request") :
                /\ i < j
                /\ last.events[i].text = conversations_to_text(last.events[j].turns)

\* C7 amended: the extraction routine is called with the slice before the
\* slice is removed and before send_message appends or returns; it sends a
\* request for the slice exactly when a persona is current and the client is
\* configured, and otherwise returns without one.
C7_ExtractionBeforeRemoval ==
    last.op = "send_message" =>
        \A j \in EventsOf("remove") :
            /\ \E i \in EventsOf("extract") :
                   i < j /\ last.events[i].turns = last.events[j].turns
            /\ \A a \in EventsOf("append") : j < a
            /\ IF current_personality # None /\ client
               THEN \E i \in EventsOf("request") :
                        /\ i < j
                        /\ last.events[i].text =
                               conversations_to_text(last.events[j].turns)
               ELSE EventsOf("request") = {}

\* an eviction with a request sent before the removal
C7_Witness ==
    /\ Evicted
    /\ \E i \in EventsOf("request") : \E j \in EventsOf("remove") : i < j

\* C8: clear_chat_history on a buffer of k > 0 turns calls the extraction
\* once, with all k turns, and leaves the buffer empty whatever the
\* extraction does; on an empty buffer it calls no extraction.
C8_ClearExtractsEverything ==
    last.op = "clear_chat_history" =>
        /\ chat_history = <<>>
        /\ IF last.pre_history # <<>>
           THEN /\ Cardinality(EventsOf("extract")) = 1
                /\ \A i \in EventsOf("extract") :
                       last.events[i].turns = last.pre_history
                /\ Cardinality(EventsOf("request")) <= 1
                /\ \A i \in EventsOf("request") :
                       last.events[i].text = conversations_to_text(last.pre_history)
           ELSE /\ EventsOf("extract") = {}
                /\ EventsOf("request") = {}
                /\ memories = last.pre_memories

\* a clear of more than memory_extract_count turns whose extraction call raised
C8_Witness ==
    /\ last.op = "clear_chat_history"
    /\ Len(last.pre_history) > memory_extract_count
    /\ EventsOf("request") # {}
    /\ last.arg.resp.raises
    /\ chat_history = <<>>

\* the rows of a persona
RowsOf(personality_id) == {r \in memories : r.personality_id = personality_id}

\* C9: get_memories(persona, limit) returns at most limit records, each a
\* row of that persona, by importance descending and, for equal importance,
\* by timestamp descending; when the persona has more rows than limit, the
\* rows left out come after every returned one in that order.
C9_GetMemoriesOrdered ==
    last.op = "get_memories" =>
        LET result == last.ret
            rows == RowsOf(last.arg.personality_id)
            returned == {result[i].id : i \in 1..Len(result)}
        IN /\ Len(result) <= last.arg.limit
           /\ Len(result) = Min(last.arg.limit, Cardinality(rows))
           /\ Cardinality(returned) = Len(result)
           /\ \A i \in 1..Len(result) :
                  \E r \in rows :
                      /\ r.id = result[i].id
                      /\ r.content = result[i].content
                      /\ r.category = result[i].category
                      /\ r.importance = result[i].importance
                      /\ r.timestamp = result[i].timestamp
           /\ \A i, j \in 1..Len(result) :
                  i < j =>
                      \/ result[i].importance > result[j].importance
                      \/ /\ result[i].importance = result[j].importance
                         /\ result[i].timestamp >= result[j].timestamp
           /\ \A r \in rows :
                  r.id \notin returned =>
                      \A i \in 1..Len(result) :
                          \/ result[i].importance > r.importance
                          \/ /\ result[i].importance = r.importance
                             /\ result[i].timestamp >= r.timestamp

\* importance 3, 5, 3 added at increasing times come back as second, third, first
C9_Witness ==
    /\ last.op = "get_memories"
    /\ Len(last.ret) = 3
    /\ last.ret[1].importance = 5
    /\ last.ret[2].importance = 3
    /\ last.ret[3].importance = 3
    /\ last.ret[1].id = 2
    /\ last.ret[2].id = 3
    /\ last.ret[3].id = 1
    /\ last.ret[3].timestamp < last.ret[1].timestamp
    /\ last.ret[1].timestamp < last.ret[2].timestamp

\* C10: delete_memory(id) returns true and removes exactly the row with that
\* id when there is one; otherwise it returns false and leaves the table as
\* it was.
C10_DeleteExactlyOne ==
    last.op = "delete_memory" =>
        IF \E r \in last.pre_memories : r.id = last.arg
        THEN /\ last.ret = TRUE
             /\ memories = {r \in last.pre_memories : r.id # last.arg}
             /\ Cardinality(memories) = Cardinality(last.pre_memories) - 1
        ELSE /\ last.ret = FALSE
             /\ memories = last.pre_memories

\* a second delete of an id that was assigned and deleted before, with other
\* rows in the table
C10_Witness ==
    /\ last.op = "delete_memory"
    /\ last.ret = FALSE
    /\ last.arg <= sqlite_sequence
    /\ memories # {}
    /\ memories = last.pre_memories

\* C11: update_memory called with no field, or with an id that no row has,
\* returns false and leaves every row of the table as it was.
C11_UpdateWithoutEffect ==
    (/\ last.op = "update_memory"
     /\ \/ DOMAIN last.arg.fields = {}
        \/ \A r \in last.pre_memories : r.id # last.arg.memory_id) =>
        /\ last.ret = FALSE
        /\ memories = last.pre_memories

\* an update that supplies a new importance for an id that was deleted, while
\* a row of lower importance is in the table
C11_Witness ==
    /\ last.op = "update_memory"
    /\ "importance" \in DOMAIN last.arg.fields
    /\ last.arg.memory_id <= sqlite_sequence
    /\ \A r \in last.pre_memories : r.id # last.arg.memory_id
    /\ \E r \in memories : r.importance < last.arg.fields.importance
    /\ last.ret = FALSE

\* C12: after update_memory(id, fields) returns true, get_memories shows the
\* row with that id carrying the supplied values; its other fields, its id,
\* its persona and its timestamp are as before, and so is every other row.
C12_UpdateRoundTrip ==
    (last.op = "update_memory" /\ last.ret = TRUE) =>
        LET id == last.arg.memory_id
            f == last.arg.fields
        IN /\ Cardinality({r \in last.pre_memories : r.id = id}) = 1
           /\ \A old \in {r \in last.pre_memories : r.id = id} :
                  /\ \A result \in get_memories(memories, old.personality_id,
                                                DefaultListLimit) :
                         \E i \in 1..Len(result) :
                             /\ result[i].id = id
                             /\ result[i].content =
                                    Get(f, "content", old.content)
                             /\ result[i].category =
                                    Get(f, "category", old.category)
                             /\ result[i].importance =
                                    Get(f, "importance", old.importance)
                             /\ result[i].tags =
                                    Get(f, "tags", json_loads_tags(old.tags))
                             /\ result[i].timestamp = old.timestamp
                  /\ \A p \in personalities \ {old.personality_id} :
                         \A result \in get_memories(memories, p, DefaultListLimit) :
                             \A i \in 1..Len(result) : result[i].id # id
           /\ {r \in memories : r.id # id} = {r \in last.pre_memories : r.id # id}
           /\ Cardinality(memories) = Cardinality(last.pre_memories)

\* an update of the importance alone of a row that has a category and tags
\* of its own, with a second row in the table
C12_Witness ==
    /\ last.op = "update_memory"
    /\ last.ret = TRUE
    /\ DOMAIN last.arg.fields = {"importance"}
    /\ Cardinality(memories) = 2
    /\ \E r \in memories :
           /\ r.id = last.arg.memory_id
           /\ r.importance = 1
           /\ r.category = "preference"
           /\ json_loads_tags(r.tags) = <<"drink">>

\* C13: no operation but a successful delete_memory of its id takes a row
\* that was in the table when it was called out of the table or to another
\* persona, and a row whose add returned true, by the panel or by an
\* extraction, is in the table under its persona.
C13_OnlyDeleteRemoves ==
    /\ \A r \in last.pre_memories :
           \/ \E q \in memories :
                  q.id = r.id /\ q.personality_id = r.personality_id
           \/ /\ last.op = "delete_memory"
              /\ last.ret = TRUE
              /\ last.arg = r.id
    /\ (last.op = "add_memory" /\ last.ret = TRUE) =>
           \E q \in memories :
               /\ q.id = last.arg.item.id
               /\ q.personality_id = last.arg.personality_id
    /\ \A i \in EventsOf("add") :
           \E q \in memories :
               /\ q.id = last.events[i].id
               /\ q.personality_id = current_personality

\* after an eviction stored two rows, a delete took one of them and the
\* other is still there
C13_Witness ==
    /\ last.op = "delete_memory"
    /\ last.ret = TRUE
    /\ Len(chat_history) > max_chat_history - memory_extract_count
    /\ sqlite_sequence = 2
    /\ Cardinality(memories) = 1
    /\ \A r \in memories : r.content \in {"likes tea", "is a student"}

\* C14: a successful add_memory returns true and sets on the item an id that
\* is not null and is larger than every id handed out before (sqlite_sequence
\* never decreases and no row has an id above it, so the id of a deleted row
\* is never handed out again); ids appear in the table only by add_memory,
\* and no two rows share one.
C14_FreshIdentity ==
    [][/\ (last'.op = "add_memory" /\ last'.ret = TRUE) =>
              /\ last'.arg.item.id > 0
              /\ last'.arg.item.id > sqlite_sequence
              /\ \A r \in memories : r.id # last'.arg.item.id
              /\ \E r \in memories' : r.id = last'.arg.item.id
       /\ sqlite_sequence' >= sqlite_sequence
       /\ \A r \in memories' : r.id <= sqlite_sequence'
       /\ \A r \in memories' :
              (\A q \in memories : q.id # r.id) =>
                  /\ last'.op = "add_memory"
                  /\ r.id = last'.arg.item.id
       /\ \A r, q \in memories' : r.id = q.id => r = q
      ]_vars

\* an add after the row with the largest id was deleted
C14_Witness ==
    /\ last.op = "add_memory"
    /\ last.ret = TRUE
    /\ last.arg.item.id = sqlite_sequence
    /\ last.pre_memories # {}
    /\ \A r \in last.pre_memories : r.id < last.arg.item.id - 1

\* C15: every row has one persona, which no operation changes, and get_memories,
\* search_memories and get_memory_summary for a persona return and count the
\* rows of that persona only.
C15_PersonaIsolation ==
    /\ \A r \in last.pre_memories : \A q \in memories :
           q.id = r.id => q.personality_id = r.personality_id
    /\ \A p \in personalities :
           \A result \in get_memories(memories, p, DefaultListLimit) :
               \A i \in 1..Len(result) :
                   \E r \in memories :
                       r.id = result[i].id /\ r.personality_id = p
    /\ last.op = "search_memories" =>
           \A i \in 1..Len(last.ret) :
               \E r \in memories :
                   /\ r.id = last.ret[i].id
                   /\ r.personality_id = last.arg.personality_id
    /\ last.op = "get_memory_summary" =>
           /\ last.ret.total_count =
                  Cardinality({r \in memories : r.personality_id = last.arg})
           /\ \A c \in DOMAIN last.ret.category_stats :
                  last.ret.category_stats[c] =
                      Cardinality({r \in memories :
                                      /\ r.personality_id = last.arg
                                      /\ r.category = c})
           /\ \A i \in 1..Len(last.ret.recent_memories) :
                  /\ \E r \in memories :
                         /\ r.personality_id = last.arg
                         /\ r.content = last.ret.recent_memories[i][1]
                         /\ r.timestamp = last.ret.recent_memories[i][2]
                  /\ \A r \in memories :
                         r.timestamp = last.ret.recent_memories[i][2] =>
                             r.personality_id = last.arg

\* a search for one persona whose keyword also matches a row of the other
\* persona, which is not returned
C15_Witness ==
    /\ last.op = "search_memories"
    /\ Len(last.ret) = 1
    /\ \E r \in memories :
           /\ r.personality_id # last.arg.personality_id
           /\ r.content = last.ret[1].content
           /\ r.id # last.ret[1].id

\* text contains keyword as a substring, the case of letters set aside
Contains(text, keyword) ==
    \E i \in 0..(Len(text) - Len(keyword)) :
        \A j \in 1..Len(keyword) : Lower(text[i + j]) = Lower(keyword[j])

\* C16: search_memories(persona, keyword) returns exactly the rows of that
\* persona whose content contains keyword as a substring, compared without
\* regard to case, by importance descending and then timestamp descending;
\* a keyword that no content contains gives the empty list.
C16_SearchBySubstring ==
    last.op = "search_memories" =>
        LET result == last.ret
            matching == {r \in RowsOf(last.arg.personality_id) :
                            Contains(Chars(r.content), Chars(last.arg.keyword))}
        IN /\ {result[i].id : i \in 1..Len(result)} = {r.id : r \in matching}
           /\ Len(result) = Cardinality(matching)
           /\ \A i \in 1..Len(result) :
                  \E r \in matching :
                      r.id = result[i].id /\ r.content = result[i].content
           /\ \A i, j \in 1..Len(result) :
                  i < j =>
                      \/ result[i].importance > result[j].importance
                      \/ /\ result[i].importance = result[j].importance
                         /\ result[i].timestamp >= result[j].timestamp

\* the sum of the values of a function with a finite domain
RECURSIVE SumOver(_, _)
SumOver(f, D) ==
    IF D = {} THEN 0
    ELSE f[CHOOSE c \in D : TRUE] + SumOver(f, D \ {CHOOSE c \in D : TRUE})

\* C17: in a summary of a persona, total_count is the number of its rows,
\* category_stats gives for each category that has a row of it the number of
\* such rows (the counts add up to total_count), and recent_memories are
\* the content and timestamp of its RecentLimit rows of latest timestamp,
\* or of all of them when there are fewer, latest first.
C17_SummaryConsistent ==
    last.op = "get_memory_summary" =>
        LET rows == RowsOf(last.arg)
            stats == last.ret.category_stats
            recent == last.ret.recent_memories
            listed == {recent[i][2] : i \in 1..Len(recent)}
        IN /\ last.ret.total_count = Cardinality(rows)
           /\ DOMAIN stats = {r.category : r \in rows}
           /\ \A c \in DOMAIN stats :
                  stats[c] = Cardinality({r \in rows : r.category = c})
           /\ SumOver(stats, DOMAIN stats) = last.ret.total_count
           /\ Len(recent) = Min(RecentLimit, Cardinality(rows))
           /\ Cardinality(listed) = Len(recent)
           /\ \A i \in 1..Len(recent) :
                  \E r \in rows :
                      r.content = recent[i][1] /\ r.timestamp = recent[i][2]
           /\ \A i, j \in 1..Len(recent) : i < j => recent[i][2] >= recent[j][2]
           /\ \A r \in rows :
                  r.timestamp \notin listed =>
                      \A i \in 1..Len(recent) : r.timestamp <= recent[i][2]

\* a summary of a persona with more than RecentLimit rows in two categories
C17_Witness ==
    /\ last.op = "get_memory_summary"
    /\ last.ret.total_count > RecentLimit
    /\ Len(last.ret.recent_memories) = RecentLimit
    /\ Cardinality(DOMAIN last.ret.category_stats) = 2

\* C18: no operation of the store raises to its caller: add_memory,
\* update_memory and delete_memory return a boolean, whatever the content of
\* the record, and an operation that returns false leaves the table as it was.
C18_StoreNeverRaises ==
    last.op \in {"add_memory", "update_memory", "delete_memory", "get_memories"} =>
        /\ EventsOf("raise") = {}
        /\ last.op # "get_memories" =>
               /\ last.ret \in BOOLEAN
               /\ last.ret = FALSE => memories = last.pre_memories

\* the replies _generate_response gives when it cannot produce one
Apologies ==
    {"sorry: cannot reply", "sorry: service not configured",
     "sorry: technical problem"}

C20_IndependentInsertion ==
    (/\ last.op \in {"send_message", "clear_chat_history"}
     /\ EventsOf("request") # {}
     /\ YieldsList(last.arg.resp)) =>
        LET items == ListOf(last.arg.resp)
            new == memories \ last.pre_memories
            good == {k \in 1..Len(items) :
                        Get(items[k], "content", "") \notin NotText}
        IN /\ Cardinality(new) = Cardinality(good)
           /\ \A k \in good :
                  \E r \in new : r.content = Get(items[k], "content", "")

\* C21: for a list of objects with text for their content, the k-th row the
\* extraction adds carries the content, category, importance and tags of the
\* k-th object where the object has them, and category "general",
\* importance 3 and no tags where it has not.
C21_FieldsAndDefaults ==
    (/\ last.op \in {"send_message", "clear_chat_history"}
     /\ EventsOf("request") # {}
     /\ YieldsList(last.arg.resp)
     /\ WellFormed(ListOf(last.arg.resp))) =>
        LET items == ListOf(last.arg.resp)
            adds == [k \in 1..Len(items) |->
                        {i \in EventsOf("add") :
                            Cardinality({j \in EventsOf("add") : j <= i}) = k}]
        IN \A k \in 1..Len(items) :
               /\ Cardinality(adds[k]) = 1
               /\ \A i \in adds[k] :
                      \E r \in memories \ last.pre_memories :
                          /\ r.id = last.events[i].id
                          /\ "content" \in DOMAIN items[k] => r.content = items[k].content
                          /\ IF "category" \in DOMAIN items[k]
                             THEN r.category = items[k].category
                             ELSE r.category = "general"
                          /\ IF "importance" \in DOMAIN items[k]
                             THEN r.importance = items[k].importance
                             ELSE r.importance = 3
                          /\ IF "tags" \in DOMAIN items[k]
                             THEN json_loads_tags(r.tags) = items[k].tags
                             ELSE json_loads_tags(r.tags) = <<>>

\* a clear stored one row with every field of its object and one row with
\* the three defaults
C21_Witness ==
    /\ last.op = "clear_chat_history"
    /\ EventsOf("request") # {}
    /\ \E r \in memories \ last.pre_memories :
           /\ r.content = "likes tea"
           /\ r.category = "preference"
           /\ r.importance = 4
           /\ json_loads_tags(r.tags) = <<"tea">>
    /\ \E r \in memories \ last.pre_memories :
           /\ r.content = "is a student"
           /\ r.category = "general"
           /\ r.importance = 3
           /\ json_loads_tags(r.tags) = <<>>

\* C22: every row an extraction inserts has a number for its importance: an
\* object whose importance is not a number gives a row of importance 3.
C22_NonNumericCoerced ==
    (/\ last.op \in {"send_message", "clear_chat_history"}
     /\ EventsOf("request") # {}) =>
        /\ \A r \in memories \ last.pre_memories : IsNumber(r.importance)
        /\ YieldsList(last.arg.resp) =>
               \A k \in 1..Len(ListOf(last.arg.resp)) :
                   ~IsNumber(Get(ListOf(last.arg.resp)[k], "importance", 3)) =>
                       \E r \in memories \ last.pre_memories :
                           /\ r.content = ListOf(last.arg.resp)[k].content
                           /\ r.importance = 3

\* C25: in every reachable state every row of the table whose importance is
\* a number has it in 1..5, whether an extraction, add_memory or
\* update_memory wrote it.
C25_ImportanceInRange ==
    \A r \in memories : IsNumber(r.importance) => r.importance \in 1..5

\* the answer is a JSON list between an opening fence, with or without the
\* language tag, and a closing fence
Fenced(resp) ==
    /\ ~resp.raises
    /\ Len(resp.text) = 3
    /\ resp.text[1].tok \in {"fence_json", "fence"}
    /\ resp.text[3].tok = "fence"
    /\ resp.text[2].tok = "value"
    /\ resp.text[2].value.kind = "list"

\* what a row records, its id and timestamp set aside
RecordOf(r) ==
    [personality_id |-> r.personality_id, content |-> r.content,
     category |-> r.category, importance |-> r.importance,
     tags |-> json_loads_tags(r.tags)]

\* C26: an extraction whose answer is a JSON list inside a fenced block, the
\* opening fence with or without a language tag, stores the records that
\* the same list without the fence would have stored.
C26_FenceStripped ==
    (/\ last.op \in {"send_message", "clear_chat_history"}
     /\ EventsOf("request") # {}
     /\ Fenced(last.arg.resp)) =>
        \A i \in EventsOf("extract") :
            LET bare == extract_memories_from_conversations(
                            last.events[i].turns, current_personality, client,
                            last.pre_memories, sqlite_sequence, now,
                            Answer(<<last.arg.resp.text[2]>>))
                new == memories \ last.pre_memories
                expected == bare.db \ last.pre_memories
            IN /\ Cardinality(new) = Cardinality(expected)
               /\ {RecordOf(r) : r \in new} = {RecordOf(r) : r \in expected}

\* the orders in which n calls can be made one after another
Orders(n) == {f \in [1..n -> 1..n] : \A i, j \in 1..n : i # j => f[i] # f[j]}

\* the calls made one after another in the given order, from the k-th on,
\* on the table of st; same: every call so far returned what it returned
\* in the run
RECURSIVE Replay(_, _, _, _)
Replay(calls, order, k, st) ==
    IF k > Len(calls) THEN st
    ELSE CHOOSE out \in
             { Replay(calls, order, k + 1,
                      [db |-> r.db, seq |-> r.seq,
                       same |-> /\ st.same
                                /\ r.ret = calls[order[k]].ret
                                /\ r.id = calls[order[k]].id]) :
               r \in {Statement(calls[order[k]].call, st.db, st.seq)} } : TRUE

\* C23: whatever the sessions have completed so far, the table is the one
\* that the completed calls, made one after another in some order on the
\* empty table, leave, with every call returning what it returned; the adds
\* that returned true have different ids, the row of each is in the table
\* unless a delete of its id returned true, and a row carries all the
\* fields of an update or none of them.
C23_Serializable ==
    LET calls == sessions.calls
        n == Len(sessions.calls)
    IN /\ \E order \in Orders(n) :
              /\ Replay(calls, order, 1, [db |-> {}, seq |-> 0, same |-> TRUE]).same
              /\ Replay(calls, order, 1, [db |-> {}, seq |-> 0, same |-> TRUE]).db
                     = memories
       /\ \A i \in 1..n :
              (calls[i].call.op = "add_memory" /\ calls[i].ret = TRUE) =>
                  /\ \A j \in 1..n :
                         (j # i /\ calls[j].call.op = "add_memory") =>
                             calls[j].id # calls[i].id
                  /\ \/ \E r \in memories : r.id = calls[i].id
                     \/ \E j \in 1..n :
                            /\ calls[j].call.op = "delete_memory"
                            /\ calls[j].call.memory_id = calls[i].id
                            /\ calls[j].ret = TRUE
       /\ \A r \in memories :
              /\ r.content = "tea pot" <=> r.category = "event"
              /\ r.content = "tea pot" <=> json_loads_tags(r.tags) = <<"edited">>

\* two sessions have each added a row, the second while the first, already
\* in its next call, held the write lock or waited for it
C23_Witness ==
    /\ Len(sessions.calls) = 2
    /\ sessions.calls[1].session # sessions.calls[2].session
    /\ sessions.calls[1].call.op = "add_memory"
    /\ sessions.calls[2].call.op = "add_memory"
    /\ sessions.calls[1].ret = TRUE
    /\ sessions.calls[2].ret = TRUE
    /\ Cardinality(memories) = 2
    /\ sessions.conn[sessions.calls[1].session] # Closed

\* C24: the context of a request for a reply lists at most ContextLimit
\* memories: the first min(ContextLimit, n) of the n records get_memories
\* lists for the current persona, in that order, each with its content,
\* category and importance; that listing is the only one the table allows,
\* and the call leaves the table as it was and the buffer with nothing but
\* its own two turns added.
C24_ContextOfTopMemories ==
    (last.op = "send_message" /\ EventsOf("remove") = {}) =>
        \A i \in EventsOf("reply") :
            LET context == last.events[i].turns[1].content
                lines == last.events[i].turns[1].content.memories
                n == Cardinality(RowsOf(current_personality))
            IN /\ context.persona = current_personality
               /\ Len(lines) <= ContextLimit
               /\ Len(lines) = Min(ContextLimit, n)
               /\ Cardinality(get_memories(last.pre_memories, current_personality,
                                           DefaultListLimit)) = 1
               /\ \A listing \in get_memories(last.pre_memories, current_personality,
                                               DefaultListLimit) :
                      \A k \in 1..Len(lines) :
                          lines[k] = <<"-", listing[k].content, listing[k].category,
                                       listing[k].importance>>
               /\ memories = last.pre_memories
               /\ Len(chat_history) = Len(last.pre_history) + 2
               /\ SubSeq(chat_history, 1, Len(last.pre_history)) = last.pre_history

\* a request whose persona has more than ContextLimit records, the newest
\* of them of low importance
C24_Witness ==
    /\ last.op = "send_message"
    /\ EventsOf("reply") # {}
    /\ Cardinality(RowsOf(current_personality)) > ContextLimit
    /\ \E r \in RowsOf(current_personality) :
           /\ r.importance = 2
           /\ \A q \in memories : q.timestamp <= r.timestamp
    /\ \A i \in EventsOf("reply") :
           /\ Len(last.events[i].turns[1].content.memories) = ContextLimit
           /\ last.events[i].turns[1].content.memories[1][4] = 4
           /\ last.events[i].turns[1].content.memories[ContextLimit][4] = 2

\* the buffer when the request for the reply of the last send_message was
\* built: the user turn is in it, the reply is not
BufferAtRequest == SubSeq(chat_history, 1, Len(chat_history) - 1)

\* the conversation window of a request: its messages between the system
\* prompt and the closing user message
WindowOf(messages) == SubSeq(messages, 2, Len(messages) - 1)

\* C27 as stated: the conversation window is the last WindowLength turns of
\* the buffer, or all of them when there are fewer, in their order, a user
\* turn as a user message and an agent turn as an assistant message.
C27_WindowIsLastTurns ==
    last.op = "send_message" =>
        \A i \in EventsOf("reply") :
            LET buffer == BufferAtRequest
                window == WindowOf(last.events[i].turns)
                first == Len(BufferAtRequest)
                         - Min(WindowLength, Len(BufferAtRequest))
            IN /\ Len(window) = Min(WindowLength, Len(buffer))
               /\ \A k \in 1..Len(window) :
                      /\ window[k].content = buffer[first + k].content
                      /\ buffer[first + k].sender = "user" => window[k].role = "user"
                      /\ buffer[first + k].sender = "ai" => window[k].role = "assistant"

\* C27 amended: the conversation window is the user and agent turns among
\* the last WindowLength turns of the buffer (among all of them when there
\* are fewer), in their order, a user turn as a user message and an agent
\* turn as an assistant message; system turns are left out. Building it
\* leaves the buffer as it was.
C27_WindowSkipsSystemTurns ==
    last.op = "send_message" =>
        \A i \in EventsOf("reply") :
            LET buffer == BufferAtRequest
                window == WindowOf(last.events[i].turns)
                kept == {j \in 1..Len(BufferAtRequest) :
                            /\ j > Len(BufferAtRequest) - WindowLength
                            /\ BufferAtRequest[j].sender # "system"}
            IN /\ Len(window) = Cardinality(kept)
               /\ \A j \in kept :
                      LET k == Cardinality({x \in kept : x <= j})
                      IN /\ window[k].content = buffer[j].content
                         /\ window[k].role =
                                IF buffer[j].sender = "user" THEN "user"
                                                             ELSE "assistant"
               /\ last.events[i].len = Len(buffer)
               /\ buffer[Len(buffer)].sender = "user"
               /\ \A a \in EventsOf("append") :
                      a < i => last.events[a].len = Len(buffer)

\* a request built from a buffer of more than WindowLength turns with a
\* system turn among the last WindowLength and another one before them
C27_Witness ==
    /\ last.op = "send_message"
    /\ EventsOf("reply") # {}
    /\ Len(BufferAtRequest) > WindowLength
    /\ \E j \in 1..Len(BufferAtRequest) :
           /\ j > Len(BufferAtRequest) - WindowLength
           /\ BufferAtRequest[j].sender = "system"
    /\ \E j \in 1..Len(BufferAtRequest) :
           /\ j <= Len(BufferAtRequest) - WindowLength
           /\ BufferAtRequest[j].sender = "system"

\* C30: in the messages of a request for a reply the user turn being
\* answered is one message, the last one, with the user role: the user
\* messages that carry its text are that one and one for each other user
\* turn of the same text among the last WindowLength turns of the buffer.
C30_UserTurnOnce ==
    last.op = "send_message" =>
        \A i \in EventsOf("reply") :
            LET messages == last.events[i].turns
                n == Len(BufferAtRequest)
                others == {j \in 1..(Len(BufferAtRequest) - 1) :
                              /\ j > Len(BufferAtRequest) - WindowLength
                              /\ BufferAtRequest[j].sender = "user"
                              /\ BufferAtRequest[j].content = last.arg.content}
            IN /\ messages[Len(messages)].role = "user"
               /\ messages[Len(messages)].content = last.arg.content
               /\ Cardinality({k \in 2..Len(messages) :
                                  /\ messages[k].role = "user"
                                  /\ messages[k].content = last.arg.content})
                      = 1 + Cardinality(others)

\* the persona a system turn of switch_personality names
PersonaNamed(content) ==
    IF content = SwitchMessage("friendly") THEN "friendly" ELSE "rational"

\* the persona that was current when turn j of the buffer h was appended,
\* for a buffer that holds every turn since the session started with the
\* default persona
PersonaAtAppend(h, j) ==
    IF \A i \in 1..(j - 1) : h[i].sender # "system"
    THEN default_personality
    ELSE PersonaNamed(h[CHOOSE i \in 1..(j - 1) :
                          /\ h[i].sender = "system"
                          /\ \A x \in (i + 1)..(j - 1) : h[x].sender # "system"].content)

\* C28 as stated: every row an eviction or a clear adds is filed under the
\* persona that was current when the user and agent turns of the extracted
\* slice were appended (stated for a buffer that has lost no turn yet: its
\* first turn is the first of the session).
C28_FiledUnderAppendPersona ==
    (/\ last.op \in {"send_message", "clear_chat_history"}
     /\ last.pre_history # <<>>
     /\ last.pre_history[1].timestamp = 1) =>
        \A i \in EventsOf("extract") :
            \A j \in 1..Len(last.events[i].turns) :
                last.pre_history[j].sender # "system" =>
                    \A r \in memories \ last.pre_memories :
                        r.personality_id = PersonaAtAppend(last.pre_history, j)

\* C28 amended: every row an eviction or a clear adds is filed under the
\* persona that is current when the extraction runs, whichever persona was
\* current when the turns of the slice were appended.
C28_FiledUnderCurrentPersona ==
    last.op \in {"send_message", "clear_chat_history"} =>
        /\ \A r \in memories \ last.pre_memories :
               r.personality_id = current_personality
        /\ \A i \in EventsOf("add") :
               \E r \in memories \ last.pre_memories : r.id = last.events[i].id

\* a clear that stored records under a persona other than the default one
\* from a buffer whose first turns were appended before the switch
C28_Witness ==
    /\ last.op = "clear_chat_history"
    /\ EventsOf("add") # {}
    /\ current_personality = "rational"
    /\ Len(last.pre_history) >= 3
    /\ last.pre_history[1].timestamp = 1
    /\ last.pre_history[1].sender = "user"
    /\ last.pre_history[3].sender = "system"
    /\ \A r \in memories \ last.pre_memories : r.personality_id = "rational"

====
